---------------------------- MODULE Spec2Model ----------------------------
(***************************************************************************)
(* A model of the gfs package (src/src/gfs): the AnyUri locator classes,   *)
(* the thread-scoped temporary allocator (temp.py) and the transfer engine *)
(* (store.py).                                                             *)
(*                                                                         *)
(* Strings are sequences of characters; a character is a one-character     *)
(* TLA+ string.  The library routines the package calls (urlparse,         *)
(* urlunparse, urljoin, quote, unquote, normpath, splitext, ...) are       *)
(* written out as the CPython 3.11 / POSIX implementations compute them,   *)
(* over the characters the model's inputs are made of.                     *)
(***************************************************************************)
EXTENDS Integers, Sequences, FiniteSets, TLC

(***************************************************************************)
(* Characters and basic string routines (str methods)                      *)
(***************************************************************************)
LowerLetters ==
    {"a","b","c","d","e","f","g","h","i","j","k","l","m",
     "n","o","p","q","r","s","t","u","v","w","x","y","z"}

UpperLetters ==
    {"A","B","C","D","E","F","G","H","I","J","K","L","M",
     "N","O","P","Q","R","S","T","U","V","W","X","Y","Z"}

Digits == {"0","1","2","3","4","5","6","7","8","9"}

HexDigits == Digits \cup {"a","b","c","d","e","f","A","B","C","D","E","F"}

AlNum == LowerLetters \cup UpperLetters \cup Digits

\* str.lower on one character
LowerChar(c) ==
    CASE c = "G" -> "g" [] c = "S" -> "s" [] c = "H" -> "h" [] c = "T" -> "t"
      [] c = "P" -> "p" [] c = "F" -> "f" [] c = "I" -> "i" [] c = "L" -> "l"
      [] c = "E" -> "e" [] c = "N" -> "n"
      [] OTHER -> c

Lower(s) == [i \in 1..Len(s) |-> LowerChar(s[i])]

\* s[a-1:b] of Python: 1-based inclusive bounds, clamped to the string
Sub(s, a, b) ==
    LET lo == IF a < 1 THEN 1 ELSE a
        hi == IF b > Len(s) THEN Len(s) ELSE b
    IN  IF lo > hi THEN <<>> ELSE SubSeq(s, lo, hi)

\* s[i:] for a 1-based i
From(s, i) == Sub(s, i, Len(s))

StartsWith(s, p) == Len(p) <= Len(s) /\ SubSeq(s, 1, Len(p)) = p

EndsWith(s, p) == Len(p) <= Len(s) /\ SubSeq(s, Len(s) - Len(p) + 1, Len(s)) = p

Contains(s, c) == \E i \in 1..Len(s) : s[i] = c

\* str.find(c, start): the least index >= start holding c, 0 when there is none
Find(s, c, start) ==
    LET hits == {i \in start..Len(s) : s[i] = c}
    IN  IF hits = {} THEN 0 ELSE CHOOSE i \in hits : \A j \in hits : i <= j

\* str.rfind(c): the greatest index holding c, 0 when there is none
RFind(s, c) ==
    LET hits == {i \in 1..Len(s) : s[i] = c}
    IN  IF hits = {} THEN 0 ELSE CHOOSE i \in hits : \A j \in hits : i >= j

\* whether the substring p occurs in s
HasSub(s, p) == \E i \in 1..(Len(s) - Len(p) + 1) : SubSeq(s, i, i + Len(p) - 1) = p

RECURSIVE Split(_, _)
\* str.split(c)
Split(s, c) ==
    LET i == Find(s, c, 1)
    IN  IF i = 0 THEN <<s>> ELSE <<Sub(s, 1, i - 1)>> \o Split(From(s, i + 1), c)

RECURSIVE Join(_, _)
\* c.join(parts)
Join(parts, c) ==
    IF Len(parts) = 0 THEN <<>>
    ELSE IF Len(parts) = 1 THEN parts[1]
    ELSE parts[1] \o <<c>> \o Join(Tail(parts), c)

RECURSIVE Replace(_, _, _)
\* str.replace(old, new): every non-overlapping occurrence, left to right
Replace(s, old, new) ==
    IF Len(s) = 0 THEN <<>>
    ELSE IF StartsWith(s, old) THEN new \o Replace(From(s, Len(old) + 1), old, new)
    ELSE <<s[1]>> \o Replace(Tail(s), old, new)

RECURSIVE LStrip(_, _)
\* str.lstrip(c)
LStrip(s, c) == IF Len(s) > 0 /\ s[1] = c THEN LStrip(Tail(s), c) ELSE s

\* the non-empty items of a list, in order (filter(None, parts))
NonEmpty(parts) == SelectSeq(parts, LAMBDA p : p # <<>>)

(***************************************************************************)
(* String constants of the sources                                         *)
(***************************************************************************)
S_http == <<"h","t","t","p">>

S_https == <<"h","t","t","p","s">>

S_gs == <<"g","s">>

S_file == <<"f","i","l","e">>

S_ftp == <<"f","t","p">>

\* "storage.googleapis.com" (anyuri.py GSUri._validate)
GSHost == <<"s","t","o","r","a","g","e",".","g","o","o","g","l","e","a","p","i","s",".","c","o","m">>

\* "https://storage.googleapis.com/" (anyuri.py GSUri.as_uri)
GSPrefix == S_https \o <<":","/","/">> \o GSHost \o <<"/">>

\* "gs://"
GSScheme == S_gs \o <<":","/","/">>

S_localhost == <<"l","o","c","a","l","h","o","s","t">>

\* "file://localhost" (anyuri.py FileUri.as_uri)
FileLocalhost == S_file \o <<":","/","/">> \o S_localhost

\* None, for an optional string
NoneStr == <<"None">>

\* ".unknown" (temp.py filepath)
S_unknown == <<".","u","n","k","n","o","w","n">>

(***************************************************************************)
(* urllib.parse, as CPython 3.11 computes it                               *)
(***************************************************************************)
\* the schemes of urllib.parse.uses_params that the model's alphabet can spell
uses_params == {<<>>, S_ftp, S_http, S_https}

\* likewise urllib.parse.uses_netloc
uses_netloc == {<<>>, S_ftp, S_http, S_https, S_file}

\* likewise urllib.parse.uses_relative
uses_relative == {<<>>, S_ftp, S_http, S_https, S_file}

\* urllib.parse.scheme_chars
scheme_chars == AlNum \cup {"+", "-", "."}

\* urllib.parse._splitnetloc(url, 2): <<netloc, rest>>
splitnetloc(url) ==
    LET hits  == {i \in 3..Len(url) : url[i] \in {"/", "?", "#"}}
        delim == IF hits = {} THEN Len(url) + 1
                 ELSE CHOOSE i \in hits : \A j \in hits : i <= j
    IN  <<Sub(url, 3, delim - 1), From(url, delim)>>

\* str.split(c, 1) with the second part empty when c is absent, given i = find(c)
split_at(u, i) ==
    IF i = 0 THEN <<u, (<<>>)>> ELSE <<Sub(u, 1, i - 1), From(u, i + 1)>>

split_first(u, c) == split_at(u, Find(u, c, 1))

\* urlsplit, the scheme: <<scheme, rest>>, given i = url.find(":")
split_scheme(url0, scheme0, i) ==
    IF /\ i > 1
       /\ url0[1] \in LowerLetters \cup UpperLetters
       /\ \A j \in 1..(i - 1) : url0[j] \in scheme_chars
    THEN <<Lower(Sub(url0, 1, i - 1)), From(url0, i + 1)>>
    ELSE <<scheme0, url0>>

\* urlsplit, the netloc: <<netloc, rest>>
split_netloc(u) ==
    IF Sub(u, 1, 2) = <<"/", "/">> THEN splitnetloc(u) ELSE <<(<<>>), u>>

\* urlsplit, the result; bad is the "Invalid IPv6 URL" ValueError
urlsplit_d(sch, netloc, pq, frag) ==
    [scheme |-> sch, netloc |-> netloc, path |-> pq[1], query |-> pq[2],
     fragment |-> frag,
     bad |-> Contains(netloc, "[") # Contains(netloc, "]")]

\* urlsplit, the query, given <<rest, fragment>>
urlsplit_c(sch, netloc, uf) ==
    urlsplit_d(sch, netloc, split_first(uf[1], "?"), uf[2])

\* urlsplit, the fragment, given <<netloc, rest>>
urlsplit_b(sch, nl) == urlsplit_c(sch, nl[1], split_first(nl[2], "#"))

\* urlsplit, given <<scheme, rest>>
urlsplit_a(ss) == urlsplit_b(ss[1], split_netloc(ss[2]))

\* urllib.parse.urlsplit(url, scheme): scheme, netloc, path, query, fragment
urlsplit(url0, scheme0) ==
    urlsplit_a(split_scheme(url0, scheme0, Find(url0, ":", 1)))

\* urllib.parse._splitparams(url): <<url, params>>, given r = url.rfind("/")
\* and i = url.find(";", r)
splitparams_at(url, r, i) ==
    IF r > 0 /\ i = 0 THEN <<url, (<<>>)>>
    ELSE <<Sub(url, 1, i - 1), From(url, i + 1)>>

splitparams_from(url, r) ==
    splitparams_at(url, r, IF r > 0 THEN Find(url, ";", r) ELSE Find(url, ";", 1))

splitparams(url) == splitparams_from(url, RFind(url, "/"))

\* urlparse, the result, given the split url and <<path, params>>
add_params(sp, pp) ==
    [scheme |-> sp.scheme, netloc |-> sp.netloc, path |-> pp[1],
     params |-> pp[2], query |-> sp.query, fragment |-> sp.fragment,
     bad |-> sp.bad]

\* urlparse, the params: only the schemes of uses_params have any
with_params(sp) ==
    add_params(sp, IF sp.scheme \in uses_params /\ Contains(sp.path, ";")
                   THEN splitparams(sp.path) ELSE <<sp.path, (<<>>)>>)

\* urllib.parse.urlparse(url, scheme)
urlparse2(url, scheme0) == with_params(urlsplit(url, scheme0))

\* urllib.parse.urlparse(url)
urlparse(url) == urlparse2(url, <<>>)

\* urlunsplit: the scheme, query and fragment around the url
add_scheme(scheme, u) == IF scheme # <<>> THEN scheme \o <<":">> \o u ELSE u

add_query(u, query) == IF query # <<>> THEN u \o <<"?">> \o query ELSE u

add_fragment(u, fragment) ==
    IF fragment # <<>> THEN u \o <<"#">> \o fragment ELSE u

\* urlunsplit: the netloc before the url
add_netloc(scheme, netloc, url) ==
    IF netloc # <<>> \/ (scheme # <<>> /\ scheme \in uses_netloc
                         /\ Sub(url, 1, 2) # <<"/", "/">>)
    THEN <<"/", "/">> \o netloc
         \o (IF url # <<>> /\ url[1] # "/" THEN <<"/">> ELSE <<>>) \o url
    ELSE url

\* urllib.parse.urlunsplit
urlunsplit(scheme, netloc, url, query, fragment) ==
    add_fragment(add_query(add_scheme(scheme, add_netloc(scheme, netloc, url)),
                           query), fragment)

\* urllib.parse.urlunparse
urlunparse(scheme, netloc, url, params, query, fragment) ==
    urlunsplit(scheme, netloc,
               IF params # <<>> THEN url \o <<";">> \o params ELSE url,
               query, fragment)

RECURSIVE resolve_segments(_, _)
\* the loop of urljoin over the segments: ".." pops, "." is skipped
resolve_segments(segments, resolved) ==
    IF Len(segments) = 0 THEN resolved
    ELSE IF Head(segments) = <<".", ".">>
    THEN resolve_segments(Tail(segments), Sub(resolved, 1, Len(resolved) - 1))
    ELSE IF Head(segments) = <<".">>
    THEN resolve_segments(Tail(segments), resolved)
    ELSE resolve_segments(Tail(segments), Append(resolved, Head(segments)))

\* urljoin: the base path without its last item unless that is a directory
base_parts(parts) ==
    IF parts[Len(parts)] # <<>> THEN Sub(parts, 1, Len(parts) - 1) ELSE parts

\* urljoin: segments[1:-1] = filter(None, segments[1:-1])
filter_inner(all) ==
    IF Len(all) <= 2 THEN all
    ELSE <<all[1]>> \o NonEmpty(Sub(all, 2, Len(all) - 1)) \o <<all[Len(all)]>>

\* urljoin: the segments to resolve
join_segments(bpath, path) ==
    IF Sub(path, 1, 1) = <<"/">> THEN Split(path, "/")
    ELSE filter_inner(base_parts(Split(bpath, "/")) \o Split(path, "/"))

\* urljoin: a trailing "." or ".." leaves a trailing "/"
close_segments(segs, resolved) ==
    IF segs[Len(segs)] \in {<<".">>, <<".", ".">>}
    THEN Append(resolved, <<>>) ELSE resolved

resolved_of(segs) == close_segments(segs, resolve_segments(segs, <<>>))

or_slash(j) == IF j = <<>> THEN <<"/">> ELSE j

\* urljoin: the resolved path
resolved_path(bpath, path) ==
    or_slash(Join(resolved_of(join_segments(bpath, path)), "/"))

\* urljoin, given both parse results and the netloc to use
urljoin_c(b, u, netloc) ==
    IF u.path = <<>> /\ u.params = <<>>
    THEN urlunparse(u.scheme, netloc, b.path, b.params,
                    IF u.query = <<>> THEN b.query ELSE u.query, u.fragment)
    ELSE urlunparse(u.scheme, netloc, resolved_path(b.path, u.path),
                    u.params, u.query, u.fragment)

\* urljoin, given both parse results
urljoin_b(url, b, u) ==
    IF u.scheme # b.scheme \/ u.scheme \notin uses_relative THEN url
    ELSE IF u.scheme \in uses_netloc /\ u.netloc # <<>>
    THEN urlunparse(u.scheme, u.netloc, u.path, u.params, u.query, u.fragment)
    ELSE urljoin_c(b, u, IF u.scheme \in uses_netloc THEN b.netloc ELSE u.netloc)

\* urljoin, given the parse result of the base
urljoin_a(url, b) == urljoin_b(url, b, urlparse2(url, b.scheme))

\* urllib.parse.urljoin(base, url)
urljoin(base, url) ==
    IF base = <<>> THEN url
    ELSE IF url = <<>> THEN base
    ELSE urljoin_a(url, urlparse(base))

\* urllib.parse.quote(c, safe="/") for one character (pathlib's as_uri)
quote_char(c) ==
    IF c \in AlNum \cup {"_", ".", "-", "~", "/"} THEN <<c>>
    ELSE CASE c = "#" -> <<"%", "2", "3">>
           [] c = "%" -> <<"%", "2", "5">>
           [] c = "?" -> <<"%", "3", "F">>
           [] c = ";" -> <<"%", "3", "B">>
           [] c = ":" -> <<"%", "3", "A">>
           [] c = "[" -> <<"%", "5", "B">>
           [] OTHER   -> <<c>>

RECURSIVE quote(_)
\* urllib.parse.quote_from_bytes(path)
quote(s) == IF Len(s) = 0 THEN <<>> ELSE quote_char(s[1]) \o quote(Tail(s))

\* the character a hex pair stands for (urllib.parse._hextobyte); the pairs are
\* those of the characters quote_char escapes
hextochar(h) ==
    CASE h = <<"2", "3">> -> "#"
      [] h = <<"2", "5">> -> "%"
      [] h \in {<<"3", "F">>, <<"3", "f">>} -> "?"
      [] h \in {<<"3", "B">>, <<"3", "b">>} -> ";"
      [] h \in {<<"3", "A">>, <<"3", "a">>} -> ":"
      [] h \in {<<"5", "B">>, <<"5", "b">>} -> "["
      [] h \in {<<"2", "F">>, <<"2", "f">>} -> "/"
      [] h \in {<<"2", "E">>, <<"2", "e">>} -> "."
      [] OTHER -> "0x" \o h[1] \o h[2]

RECURSIVE unquote(_)
\* urllib.parse.unquote: "%" followed by two hex digits is decoded, any other
\* "%" is kept
unquote(s) ==
    IF Len(s) = 0 THEN <<>>
    ELSE IF s[1] = "%" /\ Len(s) >= 3 /\ s[2] \in HexDigits /\ s[3] \in HexDigits
    THEN <<hextochar(Sub(s, 2, 3))>> \o unquote(From(s, 4))
    ELSE <<s[1]>> \o unquote(Tail(s))

(***************************************************************************)
(* os.path and pathlib, POSIX flavour                                      *)
(***************************************************************************)
\* os.getcwd() of the process
Cwd == <<"/", "w">>

RECURSIVE norm_comps(_, _, _)
\* the loop of posixpath.normpath over the components
norm_comps(comps, new_comps, initial_slashes) ==
    IF Len(comps) = 0 THEN new_comps
    ELSE IF Head(comps) \in {<<>>, <<".">>}
    THEN norm_comps(Tail(comps), new_comps, initial_slashes)
    ELSE IF \/ Head(comps) # <<".", ".">>
            \/ (initial_slashes = 0 /\ Len(new_comps) = 0)
            \/ (Len(new_comps) > 0 /\ new_comps[Len(new_comps)] = <<".", ".">>)
    THEN norm_comps(Tail(comps), Append(new_comps, Head(comps)), initial_slashes)
    ELSE norm_comps(Tail(comps), Sub(new_comps, 1, Len(new_comps) - 1),
                    initial_slashes)

\* the leading slashes POSIX keeps: two when there are exactly two
initial_slashes_of(path) ==
    IF ~StartsWith(path, <<"/">>) THEN 0
    ELSE IF StartsWith(path, <<"/", "/">>) /\ ~StartsWith(path, <<"/", "/", "/">>)
    THEN 2 ELSE 1

\* n slashes
slashes(n) == [i \in 1..n |-> "/"]

\* path or "."
or_dot(path) == IF path = <<>> THEN <<".">> ELSE path

\* normpath, given the number of leading slashes
normjoin(path, n) ==
    slashes(n) \o Join(norm_comps(Split(path, "/"), <<>>, n), "/")

\* posixpath.normpath
normpath(path) == or_dot(normjoin(path, initial_slashes_of(path)))

\* str(pathlib.PurePosixPath(s)): empty and "." parts dropped, ".." kept
PathStr(s) ==
    or_dot(slashes(initial_slashes_of(s))
           \o Join(SelectSeq(Split(s, "/"), LAMBDA c : c \notin {<<>>, <<".">>}),
                   "/"))

\* os.path.realpath of a path string on a file system without symbolic links
realpath(p) ==
    IF StartsWith(p, <<"/">>)
    THEN <<"/">> \o Join(norm_comps(Split(p, "/"), <<>>, 1), "/")
    ELSE normpath(Cwd \o <<"/">> \o p)

\* pathlib.Path(s).resolve()
resolve(s) == realpath(PathStr(s))

\* pathlib.Path.as_uri of an absolute path
path_as_uri(path) == S_file \o <<":", "/", "/">> \o quote(path)

\* os.path.basename
basename(p) == From(p, RFind(p, "/") + 1)

\* os.path.join(a, b)
join(a, b) ==
    IF StartsWith(b, <<"/">>) THEN b
    ELSE IF a = <<>> \/ EndsWith(a, <<"/">>) THEN a \o b
    ELSE a \o <<"/">> \o b

\* genericpath._splitext, given the indices of the last "/" and the last "."
splitext_at(p, sepIndex, dotIndex) ==
    IF dotIndex > sepIndex
       /\ \E k \in (sepIndex + 1)..(dotIndex - 1) : p[k] # "."
    THEN <<Sub(p, 1, dotIndex - 1), From(p, dotIndex)>>
    ELSE <<p, (<<>>)>>

\* os.path.splitext(p): <<root, ext>>
splitext(p) == splitext_at(p, RFind(p, "/"), RFind(p, "."))

(***************************************************************************)
(* gfs/utils/uri.py                                                        *)
(***************************************************************************)
\* normalize_url, given parsed_url
normalize_parsed(http_uri, parsed_url) ==
    urlunparse(parsed_url.scheme, parsed_url.netloc,
               urlparse(urljoin(http_uri, parsed_url.path)).path,
               parsed_url.params, parsed_url.query, parsed_url.fragment)

\* normalize_url(http_uri)
normalize_url(http_uri) == normalize_parsed(http_uri, urlparse(http_uri))

\* uri_to_path(file_uri), called with a file scheme
uri_to_path(file_uri) == normpath(PathStr(unquote(urlparse(file_uri).path)))

(***************************************************************************)
(* gfs/anyuri.py: the three validators return either the canonical string  *)
(* or the exception they raise                                             *)
(***************************************************************************)
Ok(cls, str) == [kind |-> cls, s |-> str]

Raise(exc) == [kind |-> exc, s |-> <<>>]

Classes == {"GSUri", "HttpUri", "FileUri"}

IsUri(r) == r.kind \in Classes

\* GSUri._validate, given p = urlparse(v)
GSUri_parsed(p) ==
    IF p.bad THEN Raise("ValueError")
    ELSE IF p.scheme \in {S_http, S_https}
    THEN IF p.netloc # GSHost THEN Raise("UriSchemaError")
         ELSE Ok("GSUri", urlunparse(S_https, GSHost, p.path, p.params,
                                     p.query, p.fragment))
    ELSE IF p.scheme = S_gs
    THEN Ok("GSUri", urlunparse(S_https, GSHost, p.netloc \o p.path,
                                p.params, p.query, p.fragment))
    ELSE Raise("UriSchemaError")

\* GSUri._validate
GSUri_validate(v) == GSUri_parsed(urlparse(v))

\* HttpUri._validate, given p = urlparse(v)
HttpUri_parsed(v, p) ==
    IF p.bad THEN Raise("ValueError")
    ELSE IF p.scheme \notin {S_http, S_https} THEN Raise("UriSchemaError")
    ELSE Ok("HttpUri", normalize_parsed(v, p))

\* HttpUri._validate
HttpUri_validate(v) == HttpUri_parsed(v, urlparse(v))

\* a FileUri._validate that takes a file:// URI of any host
FileUri_parsed_any_host(v, p) ==
    IF p.bad THEN Raise("ValueError")
    ELSE IF p.scheme # S_file THEN Raise("UriSchemaError")
    ELSE Ok("FileUri", uri_to_path(v))

\* FileUri._validate, given the uri v and p = urlparse(v)
FileUri_parsed(v, p) ==
    IF p.bad THEN Raise("ValueError")
    ELSE IF p.scheme # S_file THEN Raise("UriSchemaError")
    ELSE IF p.netloc \notin {<<>>, S_localhost} THEN Raise("UriSchemaError")
    ELSE Ok("FileUri", uri_to_path(v))

FileUri_uri(v) == FileUri_parsed(v, urlparse(v))

\* FileUri._validate: a value without "://" is a local path
FileUri_validate(value) ==
    FileUri_uri(IF ~HasSub(value, <<":", "/", "/">>)
                THEN path_as_uri(resolve(value)) ELSE value)

\* the constructor of one subclass
Construct(cls, v) ==
    CASE cls = "GSUri"   -> GSUri_validate(v)
      [] cls = "HttpUri" -> HttpUri_validate(v)
      [] cls = "FileUri" -> FileUri_validate(v)

\* a mistaken order, HttpUri before GSUri
sub_class_http_first == <<"HttpUri", "GSUri", "FileUri">>

\* AnyUri.validate: _sub_class, the order in which the subclasses are tried
sub_class == <<"GSUri", "HttpUri", "FileUri">>

\* a mistaken end of AnyUri.validate that takes what no subclass accepts for a
\* local path
NoMatch_as_local(v) == Ok("FileUri", v)

\* AnyUri.validate, after the loop: no subclass accepted
NoMatch(v) == Raise("UriSchemaError")

RECURSIVE validate_from(_, _, _)

\* AnyUri.validate, one round of the loop: UriSchemaError moves on to the next
\* subclass, a locator or any other exception ends the loop
validate_step(order, i, v, r) ==
    IF r.kind = "UriSchemaError" THEN validate_from(order, i + 1, v) ELSE r

\* the loop of AnyUri.validate from position i of the list
validate_from(order, i, v) ==
    IF i > Len(order) THEN NoMatch(v)
    ELSE validate_step(order, i, v, Construct(order[i], v))

\* AnyUri.validate, and AnyUri(value)
AnyUri(v) == validate_from(sub_class, 1, v)

\* as_uri of a locator
as_uri(x) ==
    CASE x.kind = "GSUri"   -> Replace(x.s, GSPrefix, GSScheme)
      [] x.kind = "FileUri" -> FileLocalhost \o x.s
      [] OTHER              -> x.s

\* as_source of a locator
as_source(x) == x.s

(***************************************************************************)
(* gfs/utils/gs.py: the extension of a locator                             *)
(***************************************************************************)
\* the longest extension is_legal_file_ext takes, the dot not counted
MaxExtLen == 10

\* is_legal_file_ext: ^\.[A-Za-z0-9]{1,10}$
is_legal_file_ext(ext) ==
    /\ Len(ext) >= 2
    /\ Len(ext) <= MaxExtLen + 1
    /\ ext[1] = "."
    /\ \A i \in 2..Len(ext) : ext[i] \in AlNum

\* extract_ext_from_uri, given the extension of the last part of the path
legal_ext_or_none(ext) == IF is_legal_file_ext(ext) THEN ext ELSE NoneStr

\* the last item of a list
last_of(parts) == parts[Len(parts)]

\* extract_ext_from_uri
extract_ext_from_uri(x) ==
    legal_ext_or_none(splitext(last_of(Split(urlparse(as_uri(x)).path, "/")))[2])

(***************************************************************************)
(* The inputs of the classification model: a raw string is a prefix        *)
(* (scheme and host), a body (path) and a suffix (params, query, fragment) *)
(***************************************************************************)
\* "gs://", "https://storage.googleapis.com/", "http://storage.googleapis.com/"
GSPrefixes ==
    {GSScheme, GSPrefix, S_http \o <<":","/","/">> \o GSHost \o <<"/">>,
     <<"H","T","T","P","S">> \o <<":","/","/">> \o GSHost \o <<"/">>}

\* bucket and key
GSBodies ==
    {<<"b","/","k">>,
     <<"b","/","k",".","j","p","g">>,
     <<"b">>,
     <<>>,
     <<"/","k">>,
     <<"b","/",".",".","/","k">>}

\* "http://h", "https://h", "https://storage.googleapis.com:443"
HttpPrefixes ==
    {S_http \o <<":","/","/","h">>, S_https \o <<":","/","/","h">>,
     S_https \o <<":","/","/">> \o GSHost \o <<":","4","4","3">>}

HttpPaths ==
    {<<>>,
     <<"/">>,
     <<"/","a","/","k",".","j","p","g">>,
     <<"/","a","/",".",".","/","k">>,
     <<"/","a","/",".","/","k">>,
     <<"/","/","e","/","k">>,
     <<"/","a","/",".",".">>,
     <<"/","/","e","/",".",".","/","k">>,
     <<"/","k",".","P","N","G">>,
     <<"/","k",".","a","b","c","d","e","f","g","h","i","j">>,
     <<"/","k",".","a","b","c","d","e","f","g","h","i","j","k">>,
     <<"/","k",".","a","-","b">>}

\* "" (a bare path), "file://", "file://localhost", "file://h"
FilePrefixes ==
    {<<>>, S_file \o <<":","/","/">>, FileLocalhost, S_file \o <<":","/","/","h">>}

FilePaths ==
    {<<"/","a","/","k">>,
     <<"/","a","/",".",".","/","k">>,
     <<"/","a","#","k">>,
     <<"/","a","%","2","3","k">>,
     <<"/","a","?","k">>,
     <<"/","a","%","k">>,
     <<"k">>,
     <<>>,
     <<"/","/","a">>,
     <<"/","a",";","k">>,
     <<"/","a","/","k",".","j","p","g">>,
     <<"/","a","#","k",".","j","p","g">>}

\* params, query and fragment
Suffixes ==
    {<<>>,
     <<"?","x">>,
     <<"#","f">>,
     <<";","p">>,
     <<";","p","?","x","#","f">>}

\* strings no validator accepts, and one urlparse refuses
OtherInputs ==
    {<<"f","t","p",":","/","/","h","/","a">>,
     <<"x",":","/","/">>,
     <<"h","t","t","p",":","/","/","[","h","/","a">>,
     <<"/","t","/","a",":","/","/","k">>}

Input(pre, body, suf) == [pre |-> pre, body |-> body, suf |-> suf]

Inputs ==
    {Input(a, b, c) : a \in GSPrefixes, b \in GSBodies, c \in Suffixes}
    \cup {Input(a, b, c) : a \in HttpPrefixes, b \in HttpPaths, c \in Suffixes}
    \cup {Input(a, b, <<>>) : a \in FilePrefixes, b \in FilePaths}
    \cup {Input(<<>>, b, <<>>) : b \in OtherInputs}

NoInput == Input(<<>>, <<>>, <<>>)

NoLoc == [kind |-> "none", s |-> <<>>]

(***************************************************************************)
(* tempfile and gfs/temp.py                                                *)
(***************************************************************************)
\* threads
NumWorkers == 2

Workers == 1..NumWorkers

\* how many names the random name generator of tempfile can draw
NumNames == 2

\* what a random name is, one character standing for the 8 random characters
RndChars == <<"x", "y", "z", "u", "v", "w">>

Names == {RndChars[i] : i \in 1..NumNames}

\* tempfile.gettempdir()
TmpRoot == <<"/", "t">>

\* tempfile.template
S_tmp == <<"t", "m", "p">>

\* no directory: the value None of _thread_locals.tempdir
NoDir == <<>>

\* the name tempfile makes in directory dir from the random part r
TempName(dir, r, suffix) == dir \o <<"/">> \o S_tmp \o <<r>> \o suffix

\* the directory tempfile uses for dir=d: gettempdir() when d is None
TempDirOf(d) == IF d = NoDir THEN TmpRoot ELSE d

\* a filepath that hands the suffix to NamedTemporaryFile as it was given
suffix_as_given(suffix) == IF suffix = NoneStr THEN S_unknown ELSE suffix

\* filepath: the suffix it hands to NamedTemporaryFile
suffix_of(suffix) ==
    IF suffix = NoneStr THEN S_unknown
    ELSE IF ~StartsWith(suffix, <<".">>) THEN <<".">> \o suffix
    ELSE suffix

\* mkdtemp: the suffix None is the empty one
dir_suffix(suffix) == IF suffix = NoneStr THEN <<>> ELSE suffix

\* the paths NamedTemporaryFile can make in directory d with the suffix: any
\* name that does not exist there
FreshNames(d, suffix, existing) ==
    {TempName(d, r, suffix) : r \in Names} \ existing

\* whether path p is d or lies below d
Inside(p, d) == p = d \/ StartsWith(p, d \o <<"/">>)

\* a cleanup that removes the directory entry alone and leaves what is in it
RmTree_dir_only(d, S) == S \ {d}

\* TemporaryDirectory.cleanup (shutil.rmtree) of d in the set S of paths
RmTree(d, S) == {p \in S : ~Inside(p, d)}

\* the suffixes the callers of the allocator model pass
SuffixArgs == {NoneStr, <<"j">>, <<".", "j">>, <<>>}

(***************************************************************************)
(* State                                                                   *)
(***************************************************************************)
VARIABLES
    inp,     \* the string handed to AnyUri, in its three parts
    upc,     \* how far the classification run has got
    loc,     \* AnyUri(raw): the locator or the exception
    disp,    \* loc.as_uri()
    reloc,   \* AnyUri(disp)
    srcf,    \* loc.as_source()
    resrc,   \* AnyUri(srcf)
    uext,    \* extract_ext_from_uri(loc)
    tempdir, \* _thread_locals.tempdir of each thread (NoDir: None or unset)
    scopes,  \* the threading_tempdir blocks each thread is inside, outermost first
    dirs,    \* the directories that exist
    files,   \* the files that exist
    allocs,  \* every path dirname/filepath returned, with who asked and when
    last,    \* the last allocator operation and its outcome
    spc,     \* where the running call of local or remote stands
    call,    \* the call of local or remote: its arguments
    fr,      \* the local variables of the running call
    log,     \* what the running call did: allocations and adapter calls
    result,  \* what the last call returned or raised
    history, \* the outcomes of the finished calls, in order
    objects  \* the objects that exist in the object store

uvars == <<inp, upc, loc, disp, reloc, srcf, resrc, uext>>

tvars == <<tempdir, scopes, dirs, files, allocs, last>>

svars == <<spc, call, fr, log, result, history, objects>>

vars ==
    <<inp, upc, loc, disp, reloc, srcf, resrc, uext,
      tempdir, scopes, dirs, files, allocs, last,
      spc, call, fr, log, result, history, objects>>

\* the raw input string
Raw == inp.pre \o inp.body \o inp.suf

\* an entry of last: the operation, the thread, its binding at the call, the
\* path returned, for a scope exit the paths it removed, and for filepath the
\* suffix argument
Op(op, w, dir, path, gone) ==
    [op |-> op, w |-> w, dir |-> dir, path |-> path, gone |-> gone,
     suffix |-> NoneStr]

NoOp == Op("none", 0, NoDir, <<>>, {})

\* the allocator as the module is imported: no thread has a tempdir
TempInit ==
    /\ tempdir = [w \in Workers |-> NoDir]
    /\ scopes = [w \in Workers |-> <<>>]
    /\ dirs = {TmpRoot}
    /\ files = {}
    /\ allocs = {}
    /\ last = NoOp

\* no classification run
UriOff ==
    /\ inp = NoInput
    /\ upc = "off"
    /\ loc = NoLoc
    /\ disp = <<>>
    /\ reloc = NoLoc
    /\ srcf = <<>>
    /\ resrc = NoLoc
    /\ uext = <<>>

\* a call of local or remote
Call(op, uri, location) == [op |-> op, uri |-> uri, location |-> location]

NoCall == Call("none", <<>>, <<>>)

\* the local variables of store.local and store.remote: any_uri, target (local's
\* target_file_uri), luri (local's argument), nested (local runs for remote),
\* ruri (remote's _uri), rpath (remote's path), target_uri
NoFrame ==
    [nested |-> FALSE, luri |-> <<>>, any_uri |-> NoLoc, target |-> NoLoc,
     ruri |-> NoLoc, rpath |-> <<>>, target_uri |-> <<>>]

\* what a call returned (kind "ok") or the exception it raised, with its cause
Outcome(kind, val, cause) == [kind |-> kind, val |-> val, cause |-> cause]

NoResult == Outcome("none", <<>>, "none")

\* no call of local or remote
StoreOff ==
    /\ spc = "off"
    /\ call = NoCall
    /\ fr = NoFrame
    /\ log = <<>>
    /\ result = NoResult
    /\ history = <<>>
    /\ objects = {}

(***************************************************************************)
(* Classification runs: AnyUri(raw), x.as_uri(), AnyUri(x.as_uri())        *)
(***************************************************************************)
UriInit ==
    /\ inp \in Inputs
    /\ upc = "new"
    /\ loc = NoLoc
    /\ disp = <<>>
    /\ reloc = NoLoc
    /\ srcf = <<>>
    /\ resrc = NoLoc
    /\ uext = <<>>
    /\ TempInit
    /\ StoreOff

\* x = AnyUri(raw)
Classify ==
    /\ upc = "new"
    /\ loc' = AnyUri(Raw)
    /\ upc' = "classified"
    /\ UNCHANGED <<inp, disp, reloc, srcf, resrc, uext, tvars, svars>>

\* x.as_uri()
AsUri ==
    /\ upc = "classified"
    /\ IsUri(loc)
    /\ disp' = as_uri(loc)
    /\ upc' = "displayed"
    /\ UNCHANGED <<inp, loc, reloc, srcf, resrc, uext, tvars, svars>>

\* AnyUri(x.as_uri())
Reclassify ==
    /\ upc = "displayed"
    /\ reloc' = AnyUri(disp)
    /\ upc' = "reclassified"
    /\ UNCHANGED <<inp, loc, disp, srcf, resrc, uext, tvars, svars>>

\* x.as_source()
AsSource ==
    /\ upc = "classified"
    /\ IsUri(loc)
    /\ srcf' = as_source(loc)
    /\ upc' = "sourced"
    /\ UNCHANGED <<inp, loc, disp, reloc, resrc, uext, tvars, svars>>

\* AnyUri(x.as_source())
ReclassifySource ==
    /\ upc = "sourced"
    /\ resrc' = AnyUri(srcf)
    /\ upc' = "resourced"
    /\ UNCHANGED <<inp, loc, disp, reloc, srcf, uext, tvars, svars>>

\* extract_ext_from_uri(x)
ExtractExt ==
    /\ upc = "classified"
    /\ IsUri(loc)
    /\ uext' = extract_ext_from_uri(loc)
    /\ upc' = "extracted"
    /\ UNCHANGED <<inp, loc, disp, reloc, srcf, resrc, tvars, svars>>

UriNext ==
    \/ Classify
    \/ AsUri
    \/ Reclassify
    \/ AsSource
    \/ ReclassifySource
    \/ ExtractExt

SpecUri == UriInit /\ [][UriNext]_vars

(***************************************************************************)
(* Claims about classification                                             *)
(***************************************************************************)
\* what a loop over GSUri, HttpUri, FileUri in this order ends with, given what
\* each constructor does with the input
C1_FirstAccepting(g, h, f) ==
    IF g.kind # "UriSchemaError" THEN g
    ELSE IF h.kind # "UriSchemaError" THEN h
    ELSE IF f.kind # "UriSchemaError" THEN f
    ELSE Raise("UriSchemaError")

\* scheme http or https and the network location exactly storage.googleapis.com
C1_GSHostForm(p) ==
    /\ ~p.bad
    /\ p.scheme \in {S_http, S_https}
    /\ p.netloc = GSHost

C2_RoundTrip ==
    upc = "reclassified" => reloc = loc

\* C3: the canonical string of a gs:// or https://storage.googleapis.com/ input
\* with a params, query or fragment suffix is that of the input without it.
C3_IdentityIgnoresSuffix ==
    (upc # "new" /\ inp.pre \in {GSScheme, GSPrefix} /\ loc.kind = "GSUri") =>
        loc.s = AnyUri(inp.pre \o inp.body).s

\* C13: AnyUri(raw) is a locator of one of the three classes or raises
\* UriSchemaError and no other exception, and a string all three constructors
\* reject gives UriSchemaError.
C13_ClassifyTotal ==
    upc # "new" =>
        /\ IsUri(loc) \/ loc.kind = "UriSchemaError"
        /\ (\A cls \in Classes : Construct(cls, Raw).kind = "UriSchemaError")
                => loc.kind = "UriSchemaError"

\* C14: for every locator x that AnyUri gave, AnyUri(x.as_source()) is a
\* locator of the same class with the same canonical string.
C14_SourceIdempotent ==
    upc = "resourced" => resrc = loc

\* the last segment of the path of a locator: of the canonical path of a local
\* one, of the path component of the URL otherwise
C16_Segment(x) ==
    IF x.kind = "FileUri" THEN basename(x.s) ELSE basename(urlparse(x.s).path)

\* a dot followed by 1 to 10 ASCII letters or digits
C16_Legal(e) ==
    /\ Len(e) \in 2..11
    /\ e[1] = "."
    /\ \A i \in 2..Len(e) : e[i] \in AlNum

\* the extension e of the last segment if it is legal, none otherwise
C16_Inferred(e) == IF C16_Legal(e) THEN e ELSE NoneStr

\* C16: for every locator, extract_ext_from_uri returns the extension of the
\* last path segment if it is a dot followed by 1 to 10 letters or digits, and
\* none otherwise; query and fragment do not contribute.
C16_ExtensionInference ==
    upc = "extracted" => uext = C16_Inferred(splitext(C16_Segment(loc))[2])

\* a path without the characters a URI reads as escapes or delimiters
C18_Plain(b) == \A i \in 1..Len(b) : b[i] \notin {"%", "#", "?", ";"}

\* an absolute path without a "." or ".." segment
C18_Canonical(s) ==
    /\ StartsWith(s, <<"/">>)
    /\ \A i \in 1..Len(Split(s, "/")) :
            Split(s, "/")[i] \notin {<<".">>, <<".", ".">>}

\* C18: the canonical string of a local locator is an absolute path without
\* "." and ".." segments, and an absolute path given as a file:// URI is
\* classified as the same path given bare.
C18_LocalNormalization ==
    (upc # "new" /\ inp.pre \in FilePrefixes /\ loc.kind = "FileUri") =>
        /\ C18_Canonical(loc.s)
        /\ (StartsWith(inp.body, <<"/">>) /\ C18_Plain(inp.body))
                => loc = AnyUri(inp.body)

\* the host of a file:// URI is empty or "localhost"
C19_LocalHost(p) == p.netloc \in {<<>>, S_localhost}

\* C19, for an input file://<host><path> parsed as p: it is a local locator if
\* the host is empty or localhost and is rejected with UriSchemaError
\* otherwise, and with either of the two hosts the canonical path is the same
C19_HostRule(p) ==
    /\ C19_LocalHost(p) => loc.kind = "FileUri"
    /\ ~C19_LocalHost(p) => loc.kind = "UriSchemaError"
    /\ C19_LocalHost(p) =>
        /\ loc = AnyUri(S_file \o <<":", "/", "/">> \o p.path)
        /\ loc = AnyUri(FileLocalhost \o p.path)

C20_NoDots(path) ==
    \A i \in 1..Len(Split(path, "/")) :
        Split(path, "/")[i] \notin {<<".">>, <<".", ".">>}

\* the canonical URL q of the input p: all but the path as in the input, and no
\* dot segment in the path
C20_Canonical(p, q) ==
    /\ q.scheme = p.scheme
    /\ q.netloc = p.netloc
    /\ q.params = p.params
    /\ q.query = p.query
    /\ q.fragment = p.fragment
    /\ C20_NoDots(q.path)

\* HttpUri takes the schemes http and https and no other
C20_Schemes(p, r) ==
    IF p.scheme \in {S_http, S_https} THEN r.kind = "HttpUri"
    ELSE r.kind = "UriSchemaError"

\* C20: HttpUri accepts the schemes http and https and rejects every other
\* with UriSchemaError; the canonical URL has no "." or ".." segment in its
\* path and the scheme, host, port, params, query and fragment of the input;
\* canonicalizing the canonical URL gives it back.
C20_HttpCanonical ==
    /\ (upc # "new" /\ ~urlparse(Raw).bad)
            => C20_Schemes(urlparse(Raw), HttpUri_validate(Raw))
    /\ (upc # "new" /\ loc.kind = "HttpUri") =>
            /\ C20_Canonical(urlparse(Raw), urlparse(loc.s))
            /\ HttpUri_validate(loc.s) = loc

\* a bucket and key: the body of the address does not start with "/" and is
\* not empty
C21_Bucket(b) == b # <<>> /\ b[1] # "/"

\* the display form of the object-store locator with the canonical string s:
\* gs:// followed by what follows https://storage.googleapis.com/ in s
C21_Display(s) == GSScheme \o From(s, Len(GSPrefix) + 1)

\* C21: gs://b/k and http(s)://storage.googleapis.com/b/k have the canonical
\* string https://storage.googleapis.com/b/k; the object-store validator
\* rejects an http or https URL of another host; the source form of every
\* object-store locator starts with https://storage.googleapis.com/ and not
\* with gs://, and its display form is gs://<bucket>/<key>.
C21_GSCanonical ==
    /\ (upc # "new" /\ inp.pre \in GSPrefixes /\ C21_Bucket(inp.body))
            => loc = Ok("GSUri", GSPrefix \o inp.body \o inp.suf)
    /\ (upc # "new" /\ inp.pre \in HttpPrefixes)
            => GSUri_validate(Raw).kind = "UriSchemaError"
    /\ (upc \in {"sourced", "resourced"} /\ loc.kind = "GSUri") =>
            /\ StartsWith(srcf, GSPrefix)
            /\ ~StartsWith(srcf, GSScheme)
    /\ (upc \in {"displayed", "reclassified"} /\ loc.kind = "GSUri") =>
            /\ StartsWith(loc.s, GSPrefix)
            /\ disp = C21_Display(loc.s)

\* C25: for an http or https URL whose path has no "." or ".." segment, also
\* one with empty segments, normalize_url returns the URL as it is, and the
\* canonical string of HttpUri is the input.
C25_OnlyDotSegments ==
    (upc # "new" /\ inp.pre \in HttpPrefixes /\ C20_NoDots(urlparse(Raw).path))
        => /\ normalize_url(Raw) = Raw
           /\ loc = Ok("HttpUri", Raw)

(***************************************************************************)
(* The allocator: threading_tempdir, dirname, filepath and a caller who    *)
(* writes at a path it was given                                           *)
(***************************************************************************)
\* scopes opened so far are bounded, and so are the allocations
MaxScopes == 2

MaxAllocs == 2

\* the directories of the scopes thread w is inside
OpenOf(w) == {scopes[w][i] : i \in 1..Len(scopes[w])}

\* the record kept of an allocation: its number, who, what, the thread's
\* binding and its open scopes at the call
Alloc(w, kind, path) ==
    [n |-> Cardinality(allocs) + 1, w |-> w, kind |-> kind, path |-> path,
     bound |-> tempdir[w], open |-> OpenOf(w),
     others |-> UNION {OpenOf(v) : v \in Workers \ {w}}]

ScopesOpened == Cardinality({a \in allocs : a.kind = "scope"})

Allocated == Cardinality({a \in allocs : a.kind # "scope"})

\* threading_tempdir, entry: TemporaryDirectory() makes a fresh directory in
\* gettempdir(), _thread_locals.tempdir is set to it
Enter(w) ==
    /\ ScopesOpened < MaxScopes
    /\ \E d \in FreshNames(TmpRoot, <<>>, dirs \cup files) :
            /\ dirs' = dirs \cup {d}
            /\ tempdir' = [tempdir EXCEPT ![w] = d]
            /\ scopes' = [scopes EXCEPT ![w] = Append(@, d)]
            /\ allocs' = allocs \cup {Alloc(w, "scope", d)}
            /\ last' = Op("enter", w, tempdir[w], d, {})
    /\ UNCHANGED <<files, uvars, svars>>

\* the innermost open scope of a thread
Top(w) == scopes[w][Len(scopes[w])]

\* threading_tempdir, the body ended normally: the generator resumes after the
\* yield, clears the binding, and TemporaryDirectory removes the directory
ExitNormal(w) ==
    /\ scopes[w] # <<>>
    /\ tempdir' = [tempdir EXCEPT ![w] = NoDir]
    /\ dirs' = RmTree(Top(w), dirs)
    /\ files' = RmTree(Top(w), files)
    /\ scopes' = [scopes EXCEPT ![w] = SubSeq(@, 1, Len(@) - 1)]
    /\ last' = Op("exit", w, Top(w), <<>>,
                  {p \in dirs \cup files : Inside(p, Top(w))})
    /\ UNCHANGED <<allocs, uvars, svars>>

\* threading_tempdir, the body raised: the exception is thrown into the
\* generator at the yield, the line after it is not run, and
\* TemporaryDirectory removes the directory
ExitRaise(w) ==
    /\ scopes[w] # <<>>
    /\ dirs' = RmTree(Top(w), dirs)
    /\ files' = RmTree(Top(w), files)
    /\ scopes' = [scopes EXCEPT ![w] = SubSeq(@, 1, Len(@) - 1)]
    /\ last' = Op("exit_raise", w, Top(w), <<>>,
                  {p \in dirs \cup files : Inside(p, Top(w))})
    /\ UNCHANGED <<tempdir, allocs, uvars, svars>>

\* filepath(suffix) and filename(suffix): NamedTemporaryFile makes a file
\* with a name that does not exist in the directory and removes it on return
Filepath(w, suffix) ==
    /\ Allocated < MaxAllocs
    /\ TempDirOf(tempdir[w]) \in dirs
    /\ \E p \in FreshNames(TempDirOf(tempdir[w]), suffix_of(suffix),
                           dirs \cup files) :
            /\ allocs' = allocs \cup {Alloc(w, "file", p)}
            /\ last' = [Op("filepath", w, tempdir[w], p, {})
                            EXCEPT !.suffix = suffix]
    /\ UNCHANGED <<tempdir, scopes, dirs, files, uvars, svars>>

\* dirname(): mkdtemp makes a directory with a name that does not exist
Dirname(w) ==
    /\ Allocated < MaxAllocs
    /\ TempDirOf(tempdir[w]) \in dirs
    /\ \E p \in FreshNames(TempDirOf(tempdir[w]), dir_suffix(NoneStr),
                           dirs \cup files) :
            /\ dirs' = dirs \cup {p}
            /\ allocs' = allocs \cup {Alloc(w, "dir", p)}
            /\ last' = Op("dirname", w, tempdir[w], p, {})
    /\ UNCHANGED <<tempdir, scopes, files, uvars, svars>>

\* filepath or dirname while the bound directory is gone: tempfile raises
\* FileNotFoundError
AllocFails(w) ==
    /\ TempDirOf(tempdir[w]) \notin dirs
    /\ last' = Op("FileNotFoundError", w, tempdir[w], <<>>, {})
    /\ UNCHANGED <<tempdir, scopes, dirs, files, allocs, uvars, svars>>

\* the caller writes a file at a path filepath gave it
Write(w) ==
    /\ \E a \in allocs :
        /\ a.w = w
        /\ a.kind = "file"
        /\ a.path \notin dirs \cup files
        /\ \E d \in dirs : a.path = d \o <<"/">> \o basename(a.path)
        /\ files' = files \cup {a.path}
        /\ last' = Op("write", w, tempdir[w], a.path, {})
    /\ UNCHANGED <<tempdir, scopes, dirs, allocs, uvars, svars>>

TempNext ==
    \E w \in Workers :
        \/ Enter(w)
        \/ ExitNormal(w)
        \/ ExitRaise(w)
        \/ \E suffix \in SuffixArgs : Filepath(w, suffix)
        \/ Dirname(w)
        \/ AllocFails(w)
        \/ Write(w)

TempOnlyInit ==
    /\ UriOff
    /\ TempInit
    /\ StoreOff

SpecTemp == TempOnlyInit /\ [][TempNext]_vars

(***************************************************************************)
(* Claims about the allocator                                              *)
(***************************************************************************)
ScopeExits == {"exit", "exit_raise"}

\* C4: after a threading_tempdir scope of a thread has exited, normally or by
\* an exception, no path that dirname or filepath returned to that thread while
\* the scope's directory was its binding exists, nor anything written there.
C4_ScopeCleanup ==
    last.op \in ScopeExits =>
        \A a \in allocs :
            (a.kind # "scope" /\ a.w = last.w /\ a.bound = last.dir)
                => a.path \notin dirs \cup files

\* C4, its case: a scope left by an exception in which a file was allocated
\* and written, and a directory made
C4_Witness ==
    /\ last.op = "exit_raise"
    /\ \E a \in allocs :
        /\ a.kind = "file" /\ a.w = last.w /\ a.bound = last.dir
        /\ a.path \in last.gone
    /\ \E a \in allocs :
        /\ a.kind = "dir" /\ a.w = last.w /\ a.bound = last.dir
        /\ a.path \in last.gone

\* C5: after a threading_tempdir scope has exited, also by an exception, the
\* thread has no bound directory (get_threading_tempdir returns None).
C5_ExitUnbinds ==
    last.op \in ScopeExits => tempdir[last.w] = NoDir

\* C6, the paths: a path allocated by a thread that is inside a scope lies in
\* a scope directory of that thread and in no scope directory of another
\* thread, and a scope exit removes nothing below an open scope directory of
\* another thread
C6_Paths ==
    /\ \A a \in allocs :
        (a.kind # "scope" /\ a.open # {}) =>
            /\ \E d \in a.open : Inside(a.path, d)
            /\ \A d \in a.others : ~Inside(a.path, d)
    /\ last.op \in ScopeExits =>
        \A p \in last.gone : \A v \in Workers \ {last.w} :
            \A d \in OpenOf(v) : ~Inside(p, d)

\* C6, the bindings: the scope exit of one thread leaves the binding of every
\* other thread as it is
C6_Bindings ==
    \A w \in Workers :
        (ExitNormal(w) \/ ExitRaise(w)) =>
            \A v \in Workers \ {w} : tempdir'[v] = tempdir[v]

\* C6: under every interleaving of two or more threads, a path allocated by a
\* thread with an open scope lies inside its own scope directory and never in
\* another thread's, and a scope exit removes no path under another thread's
\* open scope and does not change another thread's binding.
C6_WorkerIsolation == [](C6_Paths) /\ [][C6_Bindings]_vars

\* C11: no two calls of filename, filepath or dirname return the same path,
\* also when the path an earlier call returned was never created or is gone.
C11_UniquePaths ==
    \A a \in allocs : \A b \in allocs :
        (a.kind # "scope" /\ b.kind # "scope" /\ a.n # b.n) => a.path # b.path

\* the directory a path is to lie in, given the binding of the thread at the
\* call: the bound scope directory, or the global temporary directory
C17_Home(bound) == IF bound # NoDir THEN bound ELSE TmpRoot

\* C17: a path filename/filepath returns does not exist when it is returned
\* and lies directly in the scope directory of the calling thread when the
\* thread has one bound, a directory of a scope that thread is inside, and
\* otherwise in the global temporary directory; and no scope exit removes a
\* path that was allocated in the global temporary directory.
C17_FilepathLocation ==
    /\ last.op = "filepath" =>
        /\ last.path \notin dirs \cup files
        /\ last.path = C17_Home(last.dir) \o <<"/">> \o basename(last.path)
        /\ last.dir # NoDir => last.dir \in OpenOf(last.w)
    /\ last.op \in ScopeExits =>
        \A a \in allocs :
            (a.kind = "file" /\ a.bound = NoDir) => a.path \notin last.gone

\* the ending the suffix rule names for a suffix argument
C22_Ending(suffix) ==
    IF suffix = NoneStr THEN S_unknown
    ELSE IF suffix # <<>> /\ suffix[1] = "." THEN suffix
    ELSE <<".">> \o suffix

\* what follows the template and the random part in the name of a path
C22_After(path) == From(basename(path), Len(S_tmp) + 2)

\* C22: the path filename/filepath returns ends with ".unknown" when no suffix
\* is given, with the suffix when it starts with ".", and with "." followed by
\* the suffix otherwise; what follows the random part of the name begins
\* with ".".
C22_SuffixRule ==
    last.op = "filepath" =>
        /\ EndsWith(last.path, C22_Ending(last.suffix))
        /\ C22_After(last.path) = C22_Ending(last.suffix)
        /\ StartsWith(C22_After(last.path), <<".">>)

\* C22, its case: filepath called with the suffix "j", which has no dot, has
\* returned a path ending in ".j"
C22_Witness ==
    /\ last.op = "filepath"
    /\ last.suffix = <<"j">>
    /\ EndsWith(last.path, <<".", "j">>)

\* C23: a path dirname or filepath returns to a thread that is inside a
\* threading_tempdir scope lies in the directory of a scope that thread is
\* inside at the call, also after an inner scope has exited, and it is gone
\* once a scope the thread was inside at the call has exited.
C23_NestedScopes ==
    /\ \A a \in allocs :
        (a.kind # "scope" /\ a.open # {}) => \E d \in a.open : Inside(a.path, d)
    /\ last.op \in ScopeExits =>
        \A a \in allocs :
            (a.kind # "scope" /\ a.w = last.w /\ a.open # {}
             /\ OpenOf(last.w) = {})
                => a.path \notin dirs \cup files

(***************************************************************************)
(* gfs/store.py: local and remote                                          *)
(***************************************************************************)
\* the thread that calls local and remote
Caller == 1

\* calls made are bounded
MaxCalls == 2

\* the sources handed to local and remote: "http://h/k.jpg", "gs://b/k.jpg",
\* "https://storage.googleapis.com/b/k", "/a/k.jpg", "/a/k", "ftp://h/a"
StoreUris ==
    {<<"h","t","t","p",":","/","/","h","/","k",".","j","p","g">>,
     <<"g","s",":","/","/","b","/","k",".","j","p","g">>,
     GSPrefix \o <<"b","/","k">>,
     <<"/","a","/","k",".","j","p","g">>,
     <<"/","a","/","k">>,
     <<"f","t","p",":","/","/","h","/","a">>}

\* the locations handed to remote: "gs://d/e" and "/n", which is no
\* object-store location
Locations ==
    {<<"g","s",":","/","/","d","/","e">>,
     <<"/","n">>}

\* an entry of log: an allocation (ev "alloc", dst the path) or the call of an
\* adapter (ev "fetch", "copy", "get", "put") from src to dst and whether it
\* succeeded
Event(ev, src, dst, ok) == [ev |-> ev, src |-> src, dst |-> dst, ok |-> ok]

\* a version of local that reports every adapter failure as DownloadError
local_error_download(kind) == "DownloadError"

\* local: the exception an adapter failure is translated to
local_error(kind) ==
    CASE kind = "HttpUri" -> "DownloadError"
      [] kind = "FileUri" -> "FileCopyError"
      [] kind = "GSUri"   -> "DownloadError"

\* local: the adapter the class of any_uri selects
local_adapter(kind) ==
    CASE kind = "HttpUri" -> "fetch"
      [] kind = "FileUri" -> "copy"
      [] kind = "GSUri"   -> "get"

\* a version of remote that uploads an object-store source as if it were a
\* local path
remote_route_gs_direct(kind) ==
    IF kind = "HttpUri" THEN "local"
    ELSE IF kind \in {"FileUri", "GSUri"} THEN "direct"
    ELSE "error"

\* remote: what the class of _uri selects
remote_route(kind) ==
    IF kind \in {"GSUri", "HttpUri"} THEN "local"
    ELSE IF kind = "FileUri" THEN "direct"
    ELSE "error"

\* the module imported, nothing called yet
StoreInit ==
    /\ UriOff
    /\ TempInit
    /\ spc = "idle"
    /\ call = NoCall
    /\ fr = NoFrame
    /\ log = <<>>
    /\ result = NoResult
    /\ history = <<>>
    /\ objects = {}

\* the call ends: it returns or raises
Finish(res) ==
    /\ result' = res
    /\ history' = Append(history, [op |-> call.op, kind |-> res.kind,
                                   val |-> res.val])
    /\ spc' = "idle"

\* the caller calls local(uri)
StartLocal(uri) ==
    /\ spc = "idle"
    /\ Len(history) < MaxCalls
    /\ call' = Call("local", uri, <<>>)
    /\ fr' = [NoFrame EXCEPT !.luri = uri]
    /\ log' = <<>>
    /\ result' = NoResult
    /\ spc' = "l_classify"
    /\ UNCHANGED <<history, objects, uvars, tvars>>

\* the caller calls remote(uri, location)
StartRemote(uri, location) ==
    /\ spc = "idle"
    /\ Len(history) < MaxCalls
    /\ call' = Call("remote", uri, location)
    /\ fr' = NoFrame
    /\ log' = <<>>
    /\ result' = NoResult
    /\ spc' = "r_classify"
    /\ UNCHANGED <<history, objects, uvars, tvars>>

\* local: any_uri = AnyUri(uri), given x = AnyUri(uri)
LocalClassified(x) ==
    IF IsUri(x)
    THEN /\ fr' = [fr EXCEPT !.any_uri = x]
         /\ spc' = "l_alloc"
         /\ UNCHANGED <<result, history>>
    ELSE /\ Finish(Outcome(x.kind, <<>>, "none"))
         /\ UNCHANGED fr

\* local: any_uri = AnyUri(uri)
LocalClassify ==
    /\ spc = "l_classify"
    /\ LocalClassified(AnyUri(fr.luri))
    /\ UNCHANGED <<call, log, objects, uvars, tvars>>

\* filename(suffix) called by local or remote fails: the bound directory is
\* gone (FileNotFoundError) or no name is left (FileExistsError)
filename_error(d) ==
    IF d \notin dirs THEN "FileNotFoundError" ELSE "FileExistsError"

\* local: target_file_uri = FileUri(filename(suffix=...)), given the directory
\* and the names that can be drawn
LocalAllocIn(d, names) ==
    IF d \notin dirs \/ names = {}
    THEN /\ Finish(Outcome(filename_error(d), <<>>, "none"))
         /\ UNCHANGED <<fr, log>>
    ELSE \E p \in names :
            /\ fr' = [fr EXCEPT !.target = FileUri_validate(p)]
            /\ log' = Append(log, Event("alloc", <<>>, p, TRUE))
            /\ spc' = "l_transfer"
            /\ UNCHANGED <<result, history>>

\* local: target_file_uri = FileUri(filename(suffix=extract_ext_from_uri(any_uri)))
LocalAlloc ==
    /\ spc = "l_alloc"
    /\ LocalAllocIn(TempDirOf(tempdir[Caller]),
                    FreshNames(TempDirOf(tempdir[Caller]),
                               suffix_of(extract_ext_from_uri(fr.any_uri)),
                               dirs \cup files))
    /\ UNCHANGED <<call, objects, uvars, tvars>>

\* local: the adapter returned, and local returns the target to its caller or,
\* called by remote, to remote
LocalReturns ==
    IF fr.nested
    THEN /\ fr' = [fr EXCEPT !.rpath = fr.target.s]
         /\ spc' = "r_alloc"
         /\ UNCHANGED <<result, history>>
    ELSE /\ Finish(Outcome("ok", fr.target.s, "none"))
         /\ UNCHANGED fr

\* local: the adapter raised, and local raises the translated exception
LocalRaises(ev) ==
    /\ Finish(Outcome(local_error(fr.any_uri.kind), <<>>, ev))
    /\ UNCHANGED fr

\* local: the adapter ev runs from any_uri to the target;
\* it succeeds, or it fails and may leave a partial file at the target
LocalTransfer(ev, ok, partial) ==
    /\ ok => ~partial
    /\ log' = Append(log, Event(ev, as_source(fr.any_uri),
                                as_source(fr.target), ok))
    /\ files' = IF ok \/ partial THEN files \cup {as_source(fr.target)}
                ELSE files
    /\ IF ok THEN LocalReturns ELSE LocalRaises(ev)
    /\ UNCHANGED <<call, objects, uvars, tempdir, scopes, dirs, allocs, last>>

\* local: download_from_http_url(any_uri, target_file_uri)
LocalFetch(ok, partial) ==
    /\ spc = "l_transfer"
    /\ local_adapter(fr.any_uri.kind) = "fetch"
    /\ LocalTransfer("fetch", ok, partial)

\* local: shutil.copy(any_uri.as_source(), target_file_uri.as_source())
LocalCopy(ok, partial) ==
    /\ spc = "l_transfer"
    /\ local_adapter(fr.any_uri.kind) = "copy"
    /\ LocalTransfer("copy", ok, partial)

\* local: download_from_gs_uri(any_uri, target_file_uri)
LocalGet(ok, partial) ==
    /\ spc = "l_transfer"
    /\ local_adapter(fr.any_uri.kind) = "get"
    /\ LocalTransfer("get", ok, partial)

\* remote: _uri = AnyUri(uri), given x = AnyUri(uri)
RemoteClassified(x) ==
    IF IsUri(x)
    THEN /\ fr' = [fr EXCEPT !.ruri = x]
         /\ spc' = "r_branch"
         /\ UNCHANGED <<result, history>>
    ELSE /\ Finish(Outcome(x.kind, <<>>, "none"))
         /\ UNCHANGED fr

\* remote: _uri = AnyUri(uri)
RemoteClassify ==
    /\ spc = "r_classify"
    /\ RemoteClassified(AnyUri(call.uri))
    /\ UNCHANGED <<call, log, objects, uvars, tvars>>

\* remote: the branch on the class of _uri, given the route
RemoteRouted(route) ==
    CASE route = "local" ->
            /\ fr' = [fr EXCEPT !.nested = TRUE, !.luri = fr.ruri.s]
            /\ spc' = "l_classify"
            /\ UNCHANGED <<result, history>>
      [] route = "direct" ->
            /\ fr' = [fr EXCEPT !.rpath = fr.ruri.s]
            /\ spc' = "r_alloc"
            /\ UNCHANGED <<result, history>>
      [] OTHER ->
            /\ Finish(Outcome("UriSchemaError", <<>>, "none"))
            /\ UNCHANGED fr

\* remote: path = local(_uri) for a GSUri or HttpUri, path = _uri for a
\* FileUri, UriSchemaError otherwise
RemoteBranch ==
    /\ spc = "r_branch"
    /\ RemoteRouted(remote_route(fr.ruri.kind))
    /\ UNCHANGED <<call, log, objects, uvars, tvars>>

\* remote: target_uri = join(location, basename(filename(suffix=ext))), given
\* the directory and the names that can be drawn; the file NamedTemporaryFile
\* made is removed when filename returns
RemoteAllocIn(d, names) ==
    IF d \notin dirs \/ names = {}
    THEN /\ Finish(Outcome(filename_error(d), <<>>, "none"))
         /\ UNCHANGED <<fr, log>>
    ELSE \E p \in names :
            /\ fr' = [fr EXCEPT !.target_uri = join(call.location, basename(p))]
            /\ log' = Append(log, Event("alloc", <<>>, p, TRUE))
            /\ spc' = "r_upload"
            /\ UNCHANGED <<result, history>>

\* remote: _, ext = splitext(path); target_uri = join(location, ...)
RemoteAlloc ==
    /\ spc = "r_alloc"
    /\ RemoteAllocIn(TempDirOf(tempdir[Caller]),
                     FreshNames(TempDirOf(tempdir[Caller]),
                                suffix_of(splitext(fr.rpath)[2]),
                                dirs \cup files))
    /\ UNCHANGED <<call, objects, uvars, tvars>>

\* remote: upload_to_gs_uri(path, GSUri(target_uri)) inside the try, given
\* g = GSUri(target_uri); every exception becomes UploadError
RemoteUploadTo(g, ok) ==
    IF ~IsUri(g)
    THEN /\ ~ok
         /\ Finish(Outcome("UploadError", <<>>, g.kind))
         /\ UNCHANGED <<log, objects>>
    ELSE /\ log' = Append(log, Event("put", fr.rpath, g.s, ok))
         /\ objects' = IF ok THEN objects \cup {g.s} ELSE objects
         /\ Finish(IF ok THEN Outcome("ok", g.s, "none")
                   ELSE Outcome("UploadError", <<>>, "put"))

\* remote: return upload_to_gs_uri(path, GSUri(target_uri)), or UploadError
RemoteUpload(ok) ==
    /\ spc = "r_upload"
    /\ RemoteUploadTo(GSUri_validate(fr.target_uri), ok)
    /\ UNCHANGED <<call, fr, uvars, tvars>>

StoreNext ==
    \/ \E uri \in StoreUris : StartLocal(uri)
    \/ \E uri \in StoreUris : \E location \in Locations :
            StartRemote(uri, location)
    \/ LocalClassify
    \/ LocalAlloc
    \/ \E ok \in BOOLEAN : \E partial \in BOOLEAN : LocalFetch(ok, partial)
    \/ \E ok \in BOOLEAN : \E partial \in BOOLEAN : LocalCopy(ok, partial)
    \/ \E ok \in BOOLEAN : \E partial \in BOOLEAN : LocalGet(ok, partial)
    \/ RemoteClassify
    \/ RemoteBranch
    \/ RemoteAlloc
    \/ \E ok \in BOOLEAN : RemoteUpload(ok)

SpecStore == StoreInit /\ [][StoreNext]_vars

(***************************************************************************)
(* Claims about local and remote                                           *)
(***************************************************************************)
\* the adapters local chooses from
C7_Adapters == {"fetch", "copy", "get"}

\* the adapter and the exception named for each class of source
C7_Expected(kind) ==
    CASE kind = "HttpUri" -> [ev |-> "fetch", err |-> "DownloadError"]
      [] kind = "FileUri" -> [ev |-> "copy", err |-> "FileCopyError"]
      [] kind = "GSUri"   -> [ev |-> "get", err |-> "DownloadError"]

\* the outcome of a call of local whose adapter calls were ad and whose source
\* is of the class that expects e
C7_Outcome(e, ad) ==
    /\ Len(ad) = 1
    /\ ad[1].ev = e.ev
    /\ ad[1].dst = log[1].dst
    /\ IF ad[1].ok
       THEN result.kind = "ok" /\ result.val = log[1].dst
       ELSE result.kind = e.err /\ result.cause = e.ev

\* C7: a call of local on a classifiable source that got its target path calls
\* exactly one adapter, the one of the source's class, towards that path; on
\* success local returns the path, on failure it raises DownloadError (HTTP,
\* object store) or FileCopyError (local) with the adapter's exception as the
\* cause.
C7_LocalDispatch ==
    (/\ spc = "idle"
     /\ call.op = "local"
     /\ log # <<>>) =>
        /\ log[1].ev = "alloc"
        /\ C7_Outcome(C7_Expected(AnyUri(call.uri).kind),
                      SelectSeq(log, LAMBDA e : e.ev \in C7_Adapters))

\* C7, its case: a call of local on a local source whose copy failed
C7_Witness ==
    /\ spc = "idle"
    /\ call.op = "local"
    /\ AnyUri(call.uri).kind = "FileUri"
    /\ Len(log) = 2
    /\ log[2].ev = "copy"
    /\ ~log[2].ok
    /\ result.kind = "FileCopyError"

\* what precedes the i-th entry of the log of a call of remote, a put, when
\* the source is x
C8_Before(x, i) ==
    IF x.kind \in {"HttpUri", "GSUri"}
    THEN /\ \E j \in 1..(i - 1) :
                /\ log[j].ev = (IF x.kind = "HttpUri" THEN "fetch" ELSE "get")
                /\ log[j].ok
                /\ log[j].src = x.s
                /\ log[j].dst = log[i].src
                /\ log[j].dst \in files
                /\ Inside(log[j].dst, TmpRoot)
         /\ Cardinality({j \in DOMAIN log : log[j].ev \in C7_Adapters}) = 1
    ELSE /\ \A j \in DOMAIN log : log[j].ev \notin C7_Adapters
         /\ log[i].src = x.s

C9_Unclassifiable(v) ==
    \A cls \in Classes : Construct(cls, v).kind = "UriSchemaError"

C10_DistinctResults ==
    \A i \in DOMAIN history : \A j \in DOMAIN history :
        (/\ i < j
         /\ history[i].kind = "ok"
         /\ history[j].kind = "ok"
         /\ history[i].op = history[j].op) =>
            history[i].val # history[j].val

\* C12: when local is called on an HTTP source and the fetch fails, local
\* raises DownloadError and no file exists at the path allocated for the call.
C12_NoFileAfterFailedFetch ==
    (/\ spc = "idle"
     /\ call.op = "local"
     /\ \E i \in DOMAIN log : log[i].ev = "fetch" /\ ~log[i].ok) =>
        /\ result.kind = "DownloadError"
        /\ log[1].dst \notin files

\* the bucket and key upload_to_gs_uri reads from a locator string: the network
\* location and the path of its display form
C15_BucketKey(s) == urlparse(as_uri(Ok("GSUri", s)))

\* the extension the result is to end in: that of the source when one can be
\* extracted, ".unknown" otherwise
C15_Ext(ext) == IF ext = NoneStr THEN S_unknown ELSE ext

\* the result r lies in the bucket of the location l, directly under its
\* directory, and ends in ext
C15_Under(l, r, ext) ==
    /\ r.netloc = l.netloc
    /\ r.path = l.path \o <<"/">> \o basename(r.path)
    /\ basename(r.path) # <<>>
    /\ EndsWith(r.path, ext)

\* C15: a successful remote(uri, "gs://<bucket>[/<dir>]") returns an
\* object-store locator in that bucket, directly under that prefix, whose key
\* ends in the extension of the source when one can be extracted and in
\* ".unknown" otherwise.
C15_ResultShape ==
    (/\ spc = "idle"
     /\ call.op = "remote"
     /\ result.kind = "ok") =>
        C15_Under(urlparse(call.location), C15_BucketKey(result.val),
                  C15_Ext(extract_ext_from_uri(AnyUri(call.uri))))

\* the adapters of the download phase of remote
C24_Downloads == {"fetch", "get"}

\* every adapter remote can call
C24_Transfers == {"fetch", "get", "copy", "put"}

\* C24: in a call of remote, a failed fetch or get surfaces as DownloadError
\* and no put is called; UploadError is raised only when the put adapter was
\* called and failed; and when the location is no valid object-store address,
\* no adapter is called at all.
C24_ErrorAttribution ==
    call.op = "remote" =>
        /\ (\E i \in DOMAIN log : log[i].ev \in C24_Downloads /\ ~log[i].ok) =>
                /\ spc = "idle" => result.kind = "DownloadError"
                /\ \A j \in DOMAIN log : log[j].ev # "put"
        /\ (spc = "idle" /\ result.kind = "UploadError") =>
                \E i \in DOMAIN log : log[i].ev = "put" /\ ~log[i].ok
        /\ ~IsUri(GSUri_validate(call.location)) =>
                \A i \in DOMAIN log : log[i].ev \notin C24_Transfers

=============================================================================
